---- MODULE Spec2Model ----
(***************************************************************************)
(* A model of the two scripts of the repository:                           *)
(*   EDA_job_monitor/EDA_job_monitor.py    the container job monitor       *)
(*   parser_sshd_config/parse_sshd_config.py  the sshd compliance checker  *)
(*                                                                         *)
(* Four specifications share the module's variables:                       *)
(*   Spec         one run of the monitor's main()                          *)
(*   SpecParse    parse_time, statement by statement, on one string        *)
(*   SpecResolve  container_last_event_ts on one container detail         *)
(*   SpecSshd     one run of get_ssh_config_log                            *)
(* A specification leaves the variables of the others at their idle value. *)
(*                                                                         *)
(* Conventions.  Time is counted in whole units (the timestamps of the     *)
(* model differ by whole units, a zone offset is a whole number of units). *)
(* A Python Optional[datetime] is a sequence: <<>> is None, <<t>> is the   *)
(* UTC instant t.  A str that the code takes apart is a sequence of        *)
(* tokens; None and "" are both <<>> where the code only tests truthiness. *)
(***************************************************************************)
EXTENDS Integers, Sequences, FiniteSets, TLC

VARIABLES
    \* ---- parse_time (SpecParse)
    pcP,        \* position in parse_time
    ptArg,      \* the argument s as passed
    ptS,        \* the local s
    ptTz,       \* the local tz: "UTC" or "None"
    ptOut,      \* the returned Optional[datetime]
    \* ---- container_last_event_ts (SpecResolve)
    pcR,        \* position in container_last_event_ts
    rInfo,      \* the argument info
    rState,     \* the local state
    rFinished, rStarted, rCreated,   \* the three parsed locals
    rOut,       \* the returned Optional[datetime]
    \* ---- main() of the monitor (Spec)
    pc,         \* position in main()
    onPath,     \* the engines found on the search path (environment)
    runtime,    \* main's runtime
    list_out,   \* the lines of the list invocation's stdout
    containers, \* main's containers
    prefix,     \* args.prefix
    hours,      \* args.hours
    target,     \* main's target
    idx,        \* the number of elements of target the for loop has taken
    jobs,       \* main's jobs
    unhealthy,  \* main's unhealthy
    now,        \* main's now
    last_ts,    \* main's last_ts of the latest iteration
    inspected,  \* the identifiers inspect was invoked with, in order
    lastKind,   \* what the latest inspect invocation produced
    listCalls,  \* the number of list invocations that ran
    stdout,     \* the reports printed on stdout, in order
    stderr,     \* the diagnostics printed on stderr, in order
    exitCode,   \* the process's exit status; Running while it runs
    \* ---- get_ssh_config_log (SpecSshd)
    pcS,        \* position in get_ssh_config_log
    all_lines,  \* the configuration file's lines
    defaults,   \* the defaults file: a sequence of <<key, value>> in file order
    ki, li,     \* the indexes of the two for loops
    message,    \* the module global message
    end_result, \* the module global end_result["message"]
    json_log,   \* the content of json_log.json; NoFile before the first write
    writes      \* the number of times json_log.json was written

parseVars   == <<pcP, ptArg, ptS, ptTz, ptOut>>
resolveVars == <<pcR, rInfo, rState, rFinished, rStarted, rCreated, rOut>>
monitorVars == <<pc, onPath, runtime, list_out, containers, prefix, hours, target, idx, jobs,
                 unhealthy, now, last_ts, inspected, lastKind, listCalls, stdout,
                 stderr, exitCode>>
sshdVars    == <<pcS, all_lines, defaults, ki, li, message, end_result, json_log, writes>>
vars        == <<parseVars, resolveVars, monitorVars, sshdVars>>

\* What an action of one specification leaves alone.
OnlyParse   == UNCHANGED <<resolveVars, monitorVars, sshdVars>>
OnlyResolve == UNCHANGED <<parseVars, monitorVars, sshdVars>>
OnlyMonitor == UNCHANGED <<parseVars, resolveVars, sshdVars>>
OnlySshd    == UNCHANGED <<parseVars, resolveVars, monitorVars>>

(***************************************************************************)
(* Bounds of the model.                                                    *)
(***************************************************************************)
MaxT == 2          \* wall-clock readings of a timestamp string: 0..MaxT
MaxFrac == 2       \* fractional-second digits of a timestamp string: 0..MaxFrac

(***************************************************************************)
(* Timestamp strings.  A token is a record [c, v]: a date-time body        *)
(* YYYY-MM-DDTHH:MM:SS reading v, a numeric zone offset of v units, ".",   *)
(* a digit, "Z", a blank, or text that is no part of a timestamp.          *)
(***************************************************************************)
Dt(k)  == [c |-> "datetime", v |-> k]
Off(o) == [c |-> "offset", v |-> o]
Dot    == [c |-> ".", v |-> 0]
Dig    == [c |-> "digit", v |-> 5]
Zed    == [c |-> "Z", v |-> 0]
Sp     == [c |-> " ", v |-> 0]
Junk   == [c |-> "text", v |-> 0]

None    == <<>>
Some(t) == <<t>>

RECURSIVE Digits(_)
Digits(n) == IF n = 0 THEN <<>> ELSE <<Dig>> \o Digits(n - 1)

\* str.strip(): the blanks at both ends removed.
RECURSIVE LStrip(_)
LStrip(s) == IF s # <<>> /\ Head(s) = Sp THEN LStrip(Tail(s)) ELSE s

RECURSIVE RStrip(_)
RStrip(s) == IF s # <<>> /\ s[Len(s)] = Sp THEN RStrip(SubSeq(s, 1, Len(s) - 1)) ELSE s

Strip(s) == RStrip(LStrip(s))

\* s.endswith("Z")
EndsWithZ(s) == s # <<>> /\ s[Len(s)] = Zed

\* "." in s
HasDot(s) == \E i \in 1..Len(s) : s[i] = Dot

\* s.split(".", 1)[0]: what precedes the first "."
BeforeDot(s) ==
    LET first == CHOOSE i \in 1..Len(s) : s[i] = Dot /\ \A j \in 1..(i - 1) : s[j] # Dot
    IN  SubSeq(s, 1, first - 1)

\* The statement "if '.' in s: s = s.split('.', 1)[0]".
CutSubseconds(s) == IF HasDot(s) THEN BeforeDot(s) ELSE s

\* datetime.fromisoformat(s) on what is left: a body, or a body and a numeric
\* offset; anything else raises ValueError.
IsoOk(s) ==
    \/ Len(s) = 1 /\ s[1].c = "datetime"
    \/ Len(s) = 2 /\ s[1].c = "datetime" /\ s[2].c = "offset"

IsoAware(s) == Len(s) = 2

\* Lines 38-46 of parse_time: the instant returned for the cut string s and tz.
FromIso(s, tz) ==
    IF ~IsoOk(s) THEN None
    ELSE IF tz = "UTC" THEN Some(s[1].v)              \* replace(tzinfo=UTC)
    ELSE IF ~IsoAware(s) THEN Some(s[1].v)            \* naive: assumed UTC
    ELSE Some(s[1].v - s[2].v)                        \* astimezone(UTC)

\* parse_time as a whole.
parse_time(s) ==
    IF s = <<>> THEN None
    ELSE LET s1 == Strip(s)
             tz == IF EndsWithZ(s1) THEN "UTC" ELSE "None"
             s2 == IF EndsWithZ(s1) THEN SubSeq(s1, 1, Len(s1) - 1) ELSE s1
         IN  FromIso(CutSubseconds(s2), tz)

(***************************************************************************)
(* The timestamp strings the model feeds parse_time.                       *)
(***************************************************************************)
Offsets == {-1, 1}
Zones == {<<>>, <<Zed>>} \cup {<<Off(o)>> : o \in Offsets}

Fraction(n) == IF n = 0 THEN <<>> ELSE <<Dot>> \o Digits(n)

\* A body, n fractional digits (n = 0: no fractional part), a zone.
TsString(k, n, z) == <<Dt(k)>> \o Fraction(n) \o z

WellFormedTs == {TsString(k, n, z) : k \in 0..MaxT, n \in 0..MaxFrac, z \in Zones}

PaddedTs == {<<Sp>> \o TsString(k, 1, <<Zed>>) \o <<Sp, Sp>> : k \in 0..MaxT}

MalformedTs == {<<Junk>>, <<Zed>>, <<Sp>>, <<Dot, Dig>>, <<Dt(0), Junk>>,
                <<Off(1)>>, <<Dt(0), Dt(1)>>}

\* <<>> stands for a missing field, JSON null and "".
ParseInputs == {<<>>} \cup WellFormedTs \cup PaddedTs \cup MalformedTs

(***************************************************************************)
(* parse_time, statement by statement (SpecParse).                         *)
(***************************************************************************)
ParseIdle ==
    /\ pcP = "idle" /\ ptArg = <<>> /\ ptS = <<>> /\ ptTz = "None" /\ ptOut = None

ParseInit ==
    /\ pcP = "entry"
    /\ ptArg \in ParseInputs
    /\ ptS = ptArg
    /\ ptTz = "None"
    /\ ptOut = None

\* if not s: return None;  s = s.strip()
PTBegin ==
    /\ OnlyParse
    /\ pcP = "entry"
    /\ IF ptS = <<>>
       THEN pcP' = "return" /\ ptOut' = None /\ UNCHANGED ptS
       ELSE pcP' = "zone" /\ ptS' = Strip(ptS) /\ UNCHANGED ptOut
    /\ UNCHANGED <<ptArg, ptTz>>

\* if s.endswith("Z"): s = s[:-1]; tz = UTC  else: tz = None
PTZone ==
    /\ OnlyParse
    /\ pcP = "zone"
    /\ IF EndsWithZ(ptS)
       THEN ptS' = SubSeq(ptS, 1, Len(ptS) - 1) /\ ptTz' = "UTC"
       ELSE ptS' = ptS /\ ptTz' = "None"
    /\ pcP' = "subseconds"
    /\ UNCHANGED <<ptArg, ptOut>>

\* if "." in s: s = s.split(".", 1)[0]
PTCut ==
    /\ OnlyParse
    /\ pcP = "subseconds"
    /\ ptS' = CutSubseconds(ptS)
    /\ pcP' = "fromiso"
    /\ UNCHANGED <<ptArg, ptTz, ptOut>>

\* the try block
PTIso ==
    /\ OnlyParse
    /\ pcP = "fromiso"
    /\ ptOut' = FromIso(ptS, ptTz)
    /\ pcP' = "return"
    /\ UNCHANGED <<ptArg, ptS, ptTz>>

(***************************************************************************)
(* container_last_event_ts (SpecResolve).  A container detail is           *)
(* [hasState, FinishedAt, StartedAt, Created]: hasState says that "State"  *)
(* is a non-empty mapping, whose two fields are then FinishedAt and        *)
(* StartedAt.                                                              *)
(***************************************************************************)
NoState == [FinishedAt |-> <<>>, StartedAt |-> <<>>]

\* state = info.get("State", {}) or {}
StateOf(info) ==
    IF info.hasState
    THEN [FinishedAt |-> info.FinishedAt, StartedAt |-> info.StartedAt]
    ELSE NoState

\* The first candidate in precedence order, whatever its instant.
FirstOf(cands) == cands[1]

\* max(candidates), candidates not empty
RECURSIVE MaxOf(_)
MaxOf(cands) ==
    IF Len(cands) = 1 THEN cands[1]
    ELSE LET m == MaxOf(Tail(cands))
         IN  IF cands[1] >= m THEN cands[1] ELSE m

\* candidates = [t for t in (finished, started, created) if t is not None]
\* if not candidates: return None;  return max(candidates)
LatestOf(finished, started, created) ==
    LET candidates == finished \o started \o created
    IN  IF candidates = <<>> THEN None ELSE Some(MaxOf(candidates))

container_last_event_ts(info) ==
    LET state == StateOf(info)
    IN  LatestOf(parse_time(state.FinishedAt), parse_time(state.StartedAt),
                 parse_time(info.Created))

ResolveFields == {<<>>, <<Junk>>} \cup {<<Dt(k), Zed>> : k \in 0..MaxT}

Details ==
    [hasState : {TRUE}, FinishedAt : ResolveFields, StartedAt : ResolveFields,
     Created : ResolveFields]
    \cup [hasState : {FALSE}, FinishedAt : {<<>>}, StartedAt : {<<>>},
          Created : ResolveFields]

EmptyDetail == [hasState |-> FALSE, FinishedAt |-> <<>>, StartedAt |-> <<>>,
                Created |-> <<>>]

ResolveIdle ==
    /\ pcR = "idle" /\ rInfo = EmptyDetail /\ rState = NoState
    /\ rFinished = None /\ rStarted = None /\ rCreated = None /\ rOut = None

ResolveInit ==
    /\ pcR = "entry"
    /\ rInfo \in Details
    /\ rState = NoState
    /\ rFinished = None /\ rStarted = None /\ rCreated = None /\ rOut = None

RState ==
    /\ OnlyResolve
    /\ pcR = "entry"
    /\ rState' = StateOf(rInfo)
    /\ pcR' = "finished"
    /\ UNCHANGED <<rInfo, rFinished, rStarted, rCreated, rOut>>

RFinished ==
    /\ OnlyResolve
    /\ pcR = "finished"
    /\ rFinished' = parse_time(rState.FinishedAt)
    /\ pcR' = "started"
    /\ UNCHANGED <<rInfo, rState, rStarted, rCreated, rOut>>

RStarted ==
    /\ OnlyResolve
    /\ pcR = "started"
    /\ rStarted' = parse_time(rState.StartedAt)
    /\ pcR' = "created"
    /\ UNCHANGED <<rInfo, rState, rFinished, rCreated, rOut>>

RCreated ==
    /\ OnlyResolve
    /\ pcR = "created"
    /\ rCreated' = parse_time(rInfo.Created)
    /\ pcR' = "candidates"
    /\ UNCHANGED <<rInfo, rState, rFinished, rStarted, rOut>>

RReturn ==
    /\ OnlyResolve
    /\ pcR = "candidates"
    /\ rOut' = LatestOf(rFinished, rStarted, rCreated)
    /\ pcR' = "return"
    /\ UNCHANGED <<rInfo, rState, rFinished, rStarted, rCreated>>

(***************************************************************************)
(* The monitor's main() (Spec).                                            *)
(*                                                                         *)
(* A name is a sequence of characters, so that startswith is computed.  A  *)
(* JSON value of a name field is [t, v]: t = "none" (missing, null), "str" *)
(* (v = <<the string>>), "list" (v = the strings of the list) or "other"   *)
(* (a number, a mapping).  An identifier is a string, "" when missing.     *)
(***************************************************************************)
MaxLines == 2      \* lines of the list invocation's output: 0..MaxLines

Running == -1
Engines == {"docker", "podman"}
Modes == {"auto"} \cup Engines

An1 == <<"a", "n", "1">>
An2 == <<"a", "n", "2">>
Ot  == <<"o", "t">>
Prefixes == {<<"a", "n">>, <<"o">>, <<>>}
HoursSet == {1, 2}
NowSet == {MaxT}

NoVal      == [t |-> "none", v |-> <<>>]
StrVal(n)  == [t |-> "str", v |-> <<n>>]
ListVal(l) == [t |-> "list", v |-> l]
OtherVal   == [t |-> "other", v |-> <<>>]

\* Python truthiness of a name field's value.
Truthy(val) ==
    CASE val.t = "none"  -> FALSE
      [] val.t = "str"   -> val.v[1] # <<>>
      [] val.t = "list"  -> val.v # <<>>
      [] val.t = "other" -> TRUE

Record(names, name, id1, id2) ==
    [kind |-> "object", Names |-> names, Name |-> name, ID |-> id1, Id |-> id2]

\* A decoded line that is no JSON object: a number, a string, null, an array.
NonObject == [kind |-> "other", Names |-> NoVal, Name |-> NoVal, ID |-> "", Id |-> ""]

Records == {
    Record(StrVal(An1), NoVal, "c1", ""),           \* Names a string, ID
    Record(ListVal(<<An1, Ot>>), NoVal, "", "c2"),  \* Names a list, Id
    Record(ListVal(<<>>), StrVal(An2), "", ""),     \* Name, no identifier
    Record(StrVal(Ot), NoVal, "c4", ""),            \* another job's name
    Record(OtherVal, StrVal(Ot), "c5", ""),         \* Names a number
    Record(NoVal, NoVal, "c6", "") }                \* no name

\* One line of the list output: blank, not JSON, or JSON decoding to value.
Line(text, value) == [text |-> text, value |-> value]
OutLines ==
    {Line("blank", NonObject), Line("garbage", NonObject), Line("json", NonObject)}
    \cup {Line("json", r) : r \in Records}

RECURSIVE SeqsUpTo(_, _)
SeqsUpTo(S, n) ==
    IF n = 0 THEN {<<>>}
    ELSE LET shorter == SeqsUpTo(S, n - 1)
         IN  shorter \cup {Append(q, x) : q \in shorter, x \in S}

\* The for loop of list_containers over out.splitlines().
RECURSIVE ParseLines(_)
ParseLines(out) ==
    IF out = <<>> THEN <<>>
    ELSE IF Head(out).text = "json"
         THEN <<Head(out).value>> \o ParseLines(Tail(out))
         ELSE ParseLines(Tail(out))

\* The engine lists a container once: no two lines carry the same record.
OncePerContainer(out) ==
    \A i, j \in 1..Len(out) :
        (i # j /\ out[i].value.kind = "object") => out[i] # out[j]

\* What run() of the list invocation returns.
ListResults ==
    {[code |-> 1, out |-> <<>>]}
    \cup {[code |-> 0, out |-> o] :
            o \in {q \in SeqsUpTo(OutLines, MaxLines) : OncePerContainer(q)}}

StartsWith(s, p) == Len(p) <= Len(s) /\ SubSeq(s, 1, Len(p)) = p

\* name = c.get("Names") or c.get("Name") or "";  a list gives its first element
PickName(c) ==
    LET raw == IF Truthy(c.Names) THEN c.Names
               ELSE IF Truthy(c.Name) THEN c.Name
               ELSE StrVal(<<>>)
    IN  IF raw.t = "list" THEN StrVal(raw.v[1]) ELSE raw

\* c.get("ID") or c.get("Id") or ""
PickId(c) == IF c.ID # "" THEN c.ID ELSE IF c.Id # "" THEN c.Id ELSE ""

\* isinstance(name, str) and name.startswith(args.prefix)
Matches(c, p) == PickName(c).t = "str" /\ StartsWith(PickName(c).v[1], p)

\* The for loop over containers: c.get raises AttributeError on a value that
\* is no mapping, which ends the run.
RECURSIVE Filter(_, _)
Filter(cs, p) ==
    IF cs = <<>> THEN [raised |-> FALSE, target |-> <<>>]
    ELSE IF Head(cs).kind # "object" THEN [raised |-> TRUE, target |-> <<>>]
    ELSE LET rest == Filter(Tail(cs), p)
             this == IF Matches(Head(cs), p)
                     THEN <<<<PickName(Head(cs)).v[1], PickId(Head(cs))>>>>
                     ELSE <<>>
         IN  [raised |-> rest.raised, target |-> this \o rest.target]

\* What run() of an inspect invocation returns, by what inspect_container
\* makes of it: a non-zero exit status; output that is no JSON (malformed,
\* empty); JSON that is no array, or an empty array; an array whose first
\* element is no mapping; an array whose first element is a detail.
InspectKinds == {"nonzero", "undecodable", "no_first_element", "array_of_other",
                 "array_of_detail"}

InspectResults ==
    {[kind |-> k, detail |-> EmptyDetail] : k \in InspectKinds \ {"array_of_detail"}}
    \cup {[kind |-> "array_of_detail", detail |-> d] : d \in Details}

\* inspect_container: data[0] if isinstance(data, list) and data else {}
\* mapping |-> FALSE: the value returned is data[0], which is no mapping.
inspect_container(res) ==
    CASE res.kind = "array_of_detail" -> [mapping |-> TRUE, detail |-> res.detail]
      [] res.kind = "array_of_other"  -> [mapping |-> FALSE, detail |-> EmptyDetail]
      [] OTHER                        -> [mapping |-> TRUE, detail |-> EmptyDetail]

\* info = inspect_container(runtime, cid); last_ts = container_last_event_ts(info)
\* for one result of the invocation.  container_last_event_ts calls info.get,
\* which raises AttributeError when info is no mapping.
InspectThenResolve(res) ==
    LET info == inspect_container(res)
    IN  [kind |-> res.kind,
         raised |-> ~info.mapping,
         ts |-> IF info.mapping THEN container_last_event_ts(info.detail) ELSE None]

InspectOutcomes == {InspectThenResolve(res) : res \in InspectResults}

Unknown         == [label |-> "last_seen", known |-> FALSE, ts |-> 0]
ExecutedAt(t)   == [label |-> "executed_at", known |-> TRUE, ts |-> t]
LastSeen(t)     == [label |-> "last_seen", known |-> TRUE, ts |-> t]

\* The comparison with the boundary left out.
WithinWindowStrict(n, t, w) == (n - t) < w

\* (now - last_ts) <= window
WithinWindow(n, t, w) == (n - t) <= w

\* The body of the for loop over target, after the inspection: the job entry.
Classify(ts, n, w) ==
    IF ts = None THEN Unknown
    ELSE IF WithinWindow(n, ts[1], w) THEN ExecutedAt(ts[1])
    ELSE LastSeen(ts[1])

\* Whether that iteration sets unhealthy = True.
MarksUnhealthy(ts, n, w) == ts = None \/ ~WithinWindow(n, ts[1], w)

EmptyJobs == [n \in {} |-> Unknown]
Put(f, k, v) == [n \in DOMAIN f \cup {k} |-> IF n = k THEN v ELSE f[n]]

MonitorIdle ==
    /\ pc = "idle" /\ onPath = {} /\ runtime = "" /\ list_out = <<>> /\ containers = <<>>
    /\ prefix = <<>> /\ hours = 0 /\ target = <<>> /\ idx = 0 /\ jobs = EmptyJobs
    /\ unhealthy = FALSE /\ now = 0 /\ last_ts = None /\ inspected = <<>>
    /\ lastKind = "none" /\ listCalls = 0 /\ stdout = <<>> /\ stderr = <<>>
    /\ exitCode = Running

MonitorInit ==
    /\ pc = "select"
    /\ onPath \in SUBSET Engines
    /\ prefix \in Prefixes
    /\ hours \in HoursSet
    /\ runtime = "" /\ list_out = <<>> /\ containers = <<>> /\ target = <<>>
    /\ idx = 0 /\ jobs = EmptyJobs /\ unhealthy = FALSE /\ now = 0 /\ last_ts = None
    /\ inspected = <<>> /\ lastKind = "none" /\ listCalls = 0
    /\ stdout = <<>> /\ stderr = <<>> /\ exitCode = Running

\* An uncaught exception: the traceback on stderr, exit status 1.
Raise ==
    /\ stderr' = Append(stderr, "traceback")
    /\ exitCode' = 1
    /\ pc' = "exited"

\* which_runtime in auto mode: the first of docker, podman that is found.
which_runtime(path) ==
    IF "docker" \in path THEN "docker"
    ELSE IF "podman" \in path THEN "podman"
    ELSE ""

\* runtime = which_runtime() if args.runtime == "auto" else args.runtime
SelectRuntime ==
    /\ OnlyMonitor
    /\ pc = "select"
    /\ \E mode \in Modes :
         IF mode = "auto" /\ which_runtime(onPath) = ""
         THEN /\ stderr' = Append(stderr, "no_runtime")
              /\ exitCode' = 2
              /\ pc' = "exited"
              /\ UNCHANGED runtime
         ELSE /\ runtime' = IF mode = "auto" THEN which_runtime(onPath) ELSE mode
              /\ pc' = "list"
              /\ UNCHANGED <<stderr, exitCode>>
    /\ UNCHANGED <<onPath, list_out, containers, prefix, hours, target, idx, jobs, unhealthy,
                   now, last_ts, inspected, lastKind, listCalls, stdout>>

\* containers = list_containers(runtime).  Popen raises FileNotFoundError for
\* an executable that is not on the search path; nothing catches it.
ListContainers ==
    /\ OnlyMonitor
    /\ pc = "list"
    /\ IF runtime \notin onPath
       THEN Raise /\ UNCHANGED <<list_out, containers, listCalls>>
       ELSE \E res \in ListResults :
              /\ listCalls' = listCalls + 1
              /\ list_out' = res.out
              /\ IF res.code # 0
                 THEN /\ stderr' = Append(stderr, "list_failed")
                      /\ exitCode' = 3
                      /\ pc' = "exited"
                      /\ UNCHANGED containers
                 ELSE /\ containers' = ParseLines(res.out)
                      /\ pc' = "filter"
                      /\ UNCHANGED <<stderr, exitCode>>
    /\ UNCHANGED <<onPath, runtime, prefix, hours, target, idx, jobs, unhealthy,
                   now, last_ts, inspected, lastKind, stdout>>

\* The name filter, then jobs = {}, unhealthy = False, window, now = now_utc().
FilterNames ==
    /\ OnlyMonitor
    /\ pc = "filter"
    /\ LET r == Filter(containers, prefix)
       IN  IF r.raised
           THEN Raise /\ UNCHANGED <<target, now>>
           ELSE /\ target' = r.target
                /\ now' \in NowSet
                /\ pc' = "loop"
                /\ UNCHANGED <<stderr, exitCode>>
    /\ UNCHANGED <<onPath, runtime, list_out, containers, prefix, hours, idx, jobs, unhealthy,
                   last_ts, inspected, lastKind, listCalls, stdout>>

\* One iteration of "for name, cid in target".
InspectOne ==
    /\ OnlyMonitor
    /\ pc = "loop"
    /\ idx < Len(target)
    /\ \E o \in InspectOutcomes :
         LET name == target[idx + 1][1]
             cid  == target[idx + 1][2]
         IN  /\ inspected' = Append(inspected, cid)
             /\ lastKind' = o.kind
             /\ IF o.raised
                THEN Raise /\ UNCHANGED <<idx, jobs, unhealthy, last_ts>>
                ELSE /\ last_ts' = o.ts
                     /\ jobs' = Put(jobs, name, Classify(o.ts, now, hours))
                     /\ unhealthy' = (unhealthy \/ MarksUnhealthy(o.ts, now, hours))
                     /\ idx' = idx + 1
                     /\ UNCHANGED <<pc, stderr, exitCode>>
    /\ UNCHANGED <<onPath, runtime, list_out, containers, prefix, hours, target, now,
                   listCalls, stdout>>

\* After the loop: status, payload, print(json.dumps(payload)).  The payload's
\* host, ansible_version and ansible_user are left out.
Report ==
    /\ OnlyMonitor
    /\ pc = "loop"
    /\ idx = Len(target)
    /\ stdout' = Append(stdout, [timestamp |-> now,
                                 status |-> IF ~unhealthy THEN "healthy" ELSE "unhealthy",
                                 jobs |-> jobs])
    /\ exitCode' = 0
    /\ pc' = "exited"
    /\ UNCHANGED <<onPath, runtime, list_out, containers, prefix, hours, target, idx, jobs,
                   unhealthy, now, last_ts, inspected, lastKind, listCalls, stderr>>

(***************************************************************************)
(* get_ssh_config_log (SpecSshd).                                          *)
(*                                                                         *)
(* A word is a sequence of characters and a line the sequence of its       *)
(* whitespace-separated words, so that "key in line", '"#" in line' and    *)
(* line.split()[-1] are computed.  A directive name holds no whitespace,   *)
(* so it is found in a line exactly when it is found in a word.  The       *)
(* defaults file is the sequence of its <<key, value>> pairs, keys         *)
(* distinct and none of them "status".                                     *)
(***************************************************************************)
MaxCfgLines == 2   \* lines of the configuration file: 0..MaxCfgLines

KP == <<"P">>
KR == <<"R">>
Vy == <<"y">>
Vn == <<"n">>
Keys == {KP, KR}
Values == {Vy, Vn}

ConfigLines == {
    <<KP, Vy>>, <<KP, Vn>>, <<KR, Vy>>, <<KR, Vn>>,
    <<<<"#", "P">>, Vn>>,            \* commented out
    <<KP, Vn, <<"#">>, <<"c">>>>,    \* a trailing comment
    <<<<"G", "P">>, Vn>>,            \* another directive whose name holds P
    <<>> }                           \* a blank line

DefaultsFiles ==
    {<<>>}
    \cup {<<<<k, v>>>> : k \in Keys, v \in Values}
    \cup {<<<<ks[1], v1>>, <<ks[2], v2>>>> :
            ks \in {q \in Keys \X Keys : q[1] # q[2]}, v1 \in Values, v2 \in Values}

\* sub in word, both sequences of characters
InWord(sub, word) ==
    \E i \in 1..(Len(word) - Len(sub) + 1) : SubSeq(word, i, i + Len(sub) - 1) = sub

\* key in line
InLine(key, line) == \E w \in 1..Len(line) : InWord(key, line[w])

\* key in line and "#" not in line
Hit(key, line) == InLine(key, line) /\ ~InLine(<<"#">>, line)

\* line.split()[-1]
LastToken(line) == line[Len(line)]

\* The status assigned in both branches.
StatusAlwaysFlips(differs, old) == "compliant"

\* end_result["message"]["status"] after a hit: only the else branch assigns it.
StatusAfter(differs, old) == IF differs THEN "compliant" ELSE old

EmptyMsg == [k \in {} |-> <<>>]

\* dict.update
Update(d, e) == [k \in DOMAIN d \cup DOMAIN e |-> IF k \in DOMAIN e THEN e[k] ELSE d[k]]

\* end_result["message"] without its "status" is entries.
NoFile == [status |-> "no file", entries |-> EmptyMsg]

SshdIdle ==
    /\ pcS = "idle" /\ all_lines = <<>> /\ defaults = <<>> /\ ki = 1 /\ li = 1
    /\ message = EmptyMsg /\ end_result = NoFile /\ json_log = NoFile /\ writes = 0

SshdInit ==
    /\ pcS = "scan"
    /\ all_lines \in SeqsUpTo(ConfigLines, MaxCfgLines)
    /\ defaults \in DefaultsFiles
    /\ ki = 1 /\ li = 1
    /\ message = EmptyMsg
    /\ end_result = [status |-> "non-compliant", entries |-> EmptyMsg]
    /\ json_log = NoFile
    /\ writes = 0

\* Whether the two for loops have pairs left.
Scanning == ki <= Len(defaults) /\ all_lines # <<>>

\* The body of the inner for loop for defaults[ki] and all_lines[li].
ScanStep ==
    /\ OnlySshd
    /\ pcS = "scan"
    /\ Scanning
    /\ LET key      == defaults[ki][1]
           expected == defaults[ki][2]
           line     == all_lines[li]
       IN  IF ~Hit(key, line)
           THEN UNCHANGED <<message, end_result, json_log, writes>>
           ELSE LET observed == LastToken(line)
                    msg      == Update(message, [k \in {key} |-> observed])
                    differs  == expected # observed
                    status   == StatusAfter(differs, end_result.status)
                IN  /\ message' = msg
                    /\ IF ~differs
                       THEN /\ end_result' = [status |-> status,
                                              entries |-> Update(end_result.entries, msg)]
                            /\ UNCHANGED <<json_log, writes>>
                       ELSE /\ end_result' = [end_result EXCEPT !.status = status]
                            /\ json_log' = end_result'
                            /\ writes' = writes + 1
    /\ IF li < Len(all_lines)
       THEN li' = li + 1 /\ UNCHANGED ki
       ELSE li' = 1 /\ ki' = ki + 1
    /\ UNCHANGED <<pcS, all_lines, defaults>>

\* The write_to_json(end_result) that ends the function.
FinalWrite ==
    /\ OnlySshd
    /\ pcS = "scan"
    /\ ~Scanning
    /\ json_log' = end_result
    /\ writes' = writes + 1
    /\ pcS' = "done"
    /\ UNCHANGED <<all_lines, defaults, ki, li, message, end_result>>

(***************************************************************************)
(* The specifications.                                                     *)
(***************************************************************************)
Init == ParseIdle /\ ResolveIdle /\ MonitorInit /\ SshdIdle
Next == SelectRuntime \/ ListContainers \/ FilterNames \/ InspectOne \/ Report
Spec == Init /\ [][Next]_vars

InitParse == ParseInit /\ ResolveIdle /\ MonitorIdle /\ SshdIdle
NextParse == PTBegin \/ PTZone \/ PTCut \/ PTIso
SpecParse == InitParse /\ [][NextParse]_vars

InitResolve == ParseIdle /\ ResolveInit /\ MonitorIdle /\ SshdIdle
NextResolve == RState \/ RFinished \/ RStarted \/ RCreated \/ RReturn
SpecResolve == InitResolve /\ [][NextResolve]_vars

InitSshd == ParseIdle /\ ResolveIdle /\ MonitorIdle /\ SshdInit
NextSshd == ScanStep \/ FinalWrite
SpecSshd == InitSshd /\ [][NextSshd]_vars

(***************************************************************************)
(* The claims.                                                             *)
(***************************************************************************)

\* C1: in the report main() prints, status is "unhealthy" exactly when some
\* entry of jobs is a "last_seen: ..." string, and "healthy" otherwise; with
\* no matched container the status is "healthy" and jobs is empty.
C1_StatusIffStaleEntry ==
    exitCode = 0 =>
        LET r == stdout[1]
        IN  /\ r.status \in {"healthy", "unhealthy"}
            /\ (r.status = "unhealthy") <=>
                   (\E n \in DOMAIN r.jobs : r.jobs[n].label = "last_seen")
            /\ target = <<>> => (r.status = "healthy" /\ DOMAIN r.jobs = {})

\* C2: every iteration of the loop over target records for its container
\* "last_seen: unknown" when no timestamp was resolved, "executed_at: ts" when
\* now - ts <= window (the boundary included) and "last_seen: ts" otherwise; the
\* first and the third set unhealthy, the second leaves it as it was; now and
\* the other entries do not change.
C2_ClassifiedByWindow ==
    [][ idx' = idx + 1 =>
          LET name == target[idx'][1]
              ts   == last_ts'
          IN  /\ now' = now
              /\ \A n \in DOMAIN jobs \ {name} : jobs'[n] = jobs[n]
              /\ ts = None => (jobs'[name] = Unknown /\ unhealthy')
              /\ (ts # None /\ now - ts[1] <= hours) =>
                     (jobs'[name] = ExecutedAt(ts[1]) /\ unhealthy' = unhealthy)
              /\ (ts # None /\ now - ts[1] > hours) =>
                     (jobs'[name] = LastSeen(ts[1]) /\ unhealthy')
      ]_vars

\* C2's case: a container whose timestamp is exactly now - window was recorded
\* as executed, in a run that is still healthy.
C2_BoundaryExecuted ==
    /\ idx > 0
    /\ last_ts = Some(now - hours)
    /\ jobs[target[idx][1]] = ExecutedAt(now - hours)
    /\ ~unhealthy

\* C3: whatever an inspect invocation produces other than an array whose first
\* element is a detail mapping, the run does not abort, the container's entry
\* is "last_seen: unknown", the run is unhealthy, and the run ends with every
\* matched container inspected and the report printed.
C3_InspectFailureDegrades ==
    lastKind \in InspectKinds \ {"array_of_detail"} =>
        /\ exitCode # 1
        /\ idx > 0
        /\ jobs[target[idx][1]] = Unknown
        /\ unhealthy
        /\ pc = "exited" =>
               /\ exitCode = 0
               /\ Len(inspected) = Len(target)
               /\ stdout[1].status = "unhealthy"

\* C4: a run ends with exit status 2 and a diagnostic when auto mode finds no
\* engine (nothing was invoked), with exit status 3 and a diagnostic when the
\* list invocation failed, an engine that cannot be invoked included (nothing
\* was inspected or printed), or with exit status 0 after exactly one report.
C4_ThreeOutcomes ==
    pc = "exited" =>
        \/ /\ exitCode = 2
           /\ stderr = <<"no_runtime">>
           /\ which_runtime(onPath) = ""
           /\ listCalls = 0 /\ inspected = <<>> /\ stdout = <<>>
        \/ /\ exitCode = 3
           /\ stderr = <<"list_failed">>
           /\ inspected = <<>> /\ stdout = <<>>
        \/ /\ exitCode = 0
           /\ Len(stdout) = 1

C6_UsableName(c) == PickName(c).t = "str" /\ PickName(c).v[1] # <<>>
C6_UsableId(c) == PickId(c) # ""

RECURSIVE C6_Pairs(_, _)
C6_Pairs(cs, p) ==
    IF cs = <<>> THEN <<>>
    ELSE LET c == Head(cs)
         IN  (IF C6_UsableName(c) /\ C6_UsableId(c) /\ StartsWith(PickName(c).v[1], p)
              THEN <<<<PickName(c).v[1], PickId(c)>>>>
              ELSE <<>>) \o C6_Pairs(Tail(cs), p)

\* C6: the name filter yields, in the order of the list output, the (name,
\* identifier) pairs of exactly the records that have a usable name starting
\* with the prefix and a usable identifier; a record without a usable name or
\* without an identifier is never inspected.
C6_FilterNeedsNameAndId ==
    pc = "loop" =>
        /\ target = C6_Pairs(containers, prefix)
        /\ \A i \in 1..Len(inspected) : inspected[i] # ""

RECURSIVE C7_Objects(_)
C7_Objects(out) ==
    IF out = <<>> THEN <<>>
    ELSE (IF Head(out).text = "json" /\ Head(out).value.kind = "object"
          THEN <<Head(out).value>>
          ELSE <<>>) \o C7_Objects(Tail(out))

\* C7: after a list invocation that exited with status 0, the records are those
\* of the output lines that decode as a JSON object, in order, every other line
\* is dropped, and no such line aborts the run: a run that aborts does so in
\* the loop over the matched containers, past the filter.
C7_OnlyObjectsKept ==
    (pc \in {"filter", "loop", "exited"} /\ listCalls = 1 /\ exitCode # 3) =>
        /\ containers = C7_Objects(list_out)
        /\ exitCode = 1 => inspected # <<>>

\* C8: for a well-formed timestamp string with n >= 0 fractional digits, ending
\* in Z, carrying a numeric offset or carrying no zone, parse_time returns the
\* UTC instant the string denotes, which is what it returns for the same string
\* without the fractional part.
C8_FractionIgnored ==
    pcP = "return" =>
        \A k \in 0..MaxT, n \in 0..MaxFrac, z \in Zones :
            ptArg = TsString(k, n, z) =>
                /\ ptOut = Some(IF z # <<>> /\ z[1].c = "offset" THEN k - z[1].v ELSE k)
                /\ ptOut = parse_time(TsString(k, 0, z))

\* C9: the report last written holds a key for an expected directive exactly
\* when a non-comment line holds the directive's name, and its value is the
\* last token of the last such line.
C9_ReportHasEveryFoundDirective ==
    pcS = "done" =>
        \A i \in 1..Len(defaults) :
            LET key  == defaults[i][1]
                hits == {j \in 1..Len(all_lines) : Hit(key, all_lines[j])}
                last == CHOOSE j \in hits : \A h \in hits : h <= j
            IN  /\ key \in DOMAIN json_log.entries <=> hits # {}
                /\ hits # {} => json_log.entries[key] = LastToken(all_lines[last])

\* The pairs (directive, line) the loops have passed where the line is a
\* non-comment line holding the directive's name whose last token differs from
\* the directive's default.
C10_Differing ==
    {q \in (1..Len(defaults)) \X (1..Len(all_lines)) :
        /\ q[1] < ki \/ (q[1] = ki /\ q[2] < li)
        /\ Hit(defaults[q[1]][1], all_lines[q[2]])
        /\ LastToken(all_lines[q[2]]) # defaults[q[1]][2]}

\* C10: the status is "compliant" exactly when some observed value differed
\* from its default and "non-compliant" otherwise (an equal value never changes
\* it); the file is written once for every differing value and once more at the
\* end, and what was written last carries the status.
C10_StatusAndWrites ==
    /\ end_result.status = IF C10_Differing # {} THEN "compliant" ELSE "non-compliant"
    /\ writes = Cardinality(C10_Differing) + (IF pcS = "done" THEN 1 ELSE 0)
    /\ writes > 0 => json_log.status = end_result.status
    /\ pcS = "done" => json_log = end_result

\* C10's case: a finished run in which one value differed and another equalled
\* its default.
C10_MixedRun ==
    /\ pcS = "done"
    /\ json_log.status = "compliant"
    /\ writes = 2
    /\ DOMAIN json_log.entries # {}

====
